---- MODULE Spec2Model ----
(***************************************************************************)
(* A model of examples/commands/services.py: main() reads one JSON         *)
(* document from stdin and prints a report of the configured services.     *)
(*                                                                         *)
(* Text is modelled as sequences of Unicode code points, a JSON document   *)
(* as the tree its text denotes (an object is the sequence of its          *)
(* key/value pairs in the order they are written), a Python value as a     *)
(* tagged record, and stdout as the sequence of lines print() wrote: one   *)
(* line per call, each call taken to succeed.                              *)
(***************************************************************************)
EXTENDS Integers, Sequences, FiniteSets, TLC

VARIABLES
    stdin,      \* the document on standard input
    context,    \* main's local `context`
    services,   \* main's local `services`
    items,      \* the list sorted(services.items()) the for loop iterates
    idx,        \* how many elements of `items` the for loop has taken
    name,       \* loop variable `name`
    svc,        \* loop variable `svc`
    out,        \* the lines written to stdout so far
    pc,         \* the statement main() is at, or "done" / "failed"
    exc,        \* the exception that ended the run, "none" if none
    prev        \* the result of the invocation before this one, <<>> if none

vars == <<stdin, context, services, items, idx, name, svc, out, pc, exc, prev>>

\* ---------------------------------------------------------------- bounds
MaxServices == 3

\* ------------------------------------------------- JSON text (the input)
JNull == [t |-> "null", v |-> 0]
JBool(b) == [t |-> "bool", v |-> b]
JInt(n) == [t |-> "int", v |-> n]
JStr(s) == [t |-> "str", v |-> s]
JArray(a) == [t |-> "array", v |-> a]
JObject(pairs) == [t |-> "object", v |-> pairs]
\* The literals NaN, Infinity and -Infinity: not JSON, but read by json.load.
JConst(c) == [t |-> "const", v |-> c]

\* --------------------------------------------------------- Python values
Unbound == [t |-> "unbound", v |-> 0]
PyNone == [t |-> "NoneType", v |-> 0]
PyBool(b) == [t |-> "bool", v |-> b]
PyInt(n) == [t |-> "int", v |-> n]
PyStr(s) == [t |-> "str", v |-> s]
PyFloat(x) == [t |-> "float", v |-> x]
PyList(a) == [t |-> "list", v |-> a]
\* A dict keeps its keys in insertion order.
PyDict(keys, val) == [t |-> "dict", v |-> [keys |-> keys, val |-> val]]
EmptyDict == PyDict(<<>>, <<>>)

\* The one member of a singleton set: TheOne({e}) evaluates e once, where an
\* operator argument would be evaluated again at each of its uses.
TheOne(S) == CHOOSE x \in S : TRUE

\* The keys of the dict built from an object's pairs, in insertion order: a
\* repeated key keeps the place of its first occurrence.
DictKeys(pairs) ==
    LET first == {i \in 1..Len(pairs) : \A j \in 1..(i - 1) : pairs[j][1] # pairs[i][1]}
    IN  [n \in 1..Cardinality(first) |->
            pairs[CHOOSE i \in first : Cardinality({j \in first : j <= i}) = n][1]]

\* The value a repeated key ends up with is that of its last occurrence.
LastValue(pairs, k) ==
    LET i == CHOOSE i \in 1..Len(pairs) :
                 /\ pairs[i][1] = k
                 /\ \A j \in (i + 1)..Len(pairs) : pairs[j][1] # k
    IN  pairs[i][2]

\* json.load on a text it accepts.
RECURSIVE loads(_)
loads(j) ==
    CASE j.t = "null" -> PyNone
      [] j.t = "bool" -> PyBool(j.v)
      [] j.t = "int" -> PyInt(j.v)
      [] j.t = "str" -> PyStr(j.v)
      [] j.t = "const" -> PyFloat(j.v)
      [] j.t = "array" ->
            PyList([i \in 1..Len(j.v) |-> TheOne({loads(c) : c \in {j.v[i]}})])
      [] j.t = "object" ->
            PyDict(DictKeys(j.v),
                   [k \in {j.v[i][1] : i \in 1..Len(j.v)} |->
                       TheOne({loads(c) : c \in {LastValue(j.v, k)}})])

\* Subscript as it would be if subscripting a value that is not a dict gave None.
SubscriptNoTypeError(obj, key) ==
    IF obj.t = "dict"
    THEN IF key \in DOMAIN obj.v.val
         THEN [ok |-> TRUE, v |-> obj.v.val[key], exc |-> "none"]
         ELSE [ok |-> FALSE, v |-> Unbound, exc |-> "KeyError"]
    ELSE [ok |-> TRUE, v |-> PyNone, exc |-> "none"]

\* Subscript as it would be if a missing key gave '' (obj.get(key, '')).
SubscriptDefault(obj, key) ==
    IF obj.t = "dict"
    THEN IF key \in DOMAIN obj.v.val
         THEN [ok |-> TRUE, v |-> obj.v.val[key], exc |-> "none"]
         ELSE [ok |-> TRUE, v |-> PyStr(<<>>), exc |-> "none"]
    ELSE [ok |-> FALSE, v |-> Unbound, exc |-> "TypeError"]

\* obj[key] for a str key: the value, or the exception raised.
Subscript(obj, key) ==
    IF obj.t = "dict"
    THEN IF key \in DOMAIN obj.v.val
         THEN [ok |-> TRUE, v |-> obj.v.val[key], exc |-> "none"]
         ELSE [ok |-> FALSE, v |-> Unbound, exc |-> "KeyError"]
    ELSE [ok |-> FALSE, v |-> Unbound, exc |-> "TypeError"]

\* d.get(key, default) on a dict.
DictGet(d, key, default) ==
    IF key \in DOMAIN d.v.val THEN d.v.val[key] ELSE default

\* Truthy as it would be if the test were `services is None`.
TruthyNotNone(v) == v.t # "NoneType"

\* Truthy as it would be if every value that is not a dict counted as empty.
TruthyIfDict(v) == v.t = "dict" /\ Len(v.v.keys) # 0

\* bool(v): Python's truth value.
Truthy(v) ==
    CASE v.t = "NoneType" -> FALSE
      [] v.t = "bool" -> v.v
      [] v.t = "int" -> v.v # 0
      [] v.t = "float" -> TRUE          \* nan and the infinities are not 0.0
      [] v.t = "str" -> Len(v.v) # 0
      [] v.t = "list" -> Len(v.v) # 0
      [] v.t = "dict" -> Len(v.v.keys) # 0

\* v.items() as a list of (key, value) pairs, or the exception raised.
DictItems(v) ==
    IF v.t = "dict"
    THEN [ok |-> TRUE,
          v |-> [i \in 1..Len(v.v.keys) |-> <<v.v.keys[i], v.v.val[v.v.keys[i]]>>],
          exc |-> "none"]
    ELSE [ok |-> FALSE, v |-> <<>>, exc |-> "AttributeError"]

\* a < b for two str: lexicographic by code point, a proper prefix is smaller.
RECURSIVE StrLess(_, _)
StrLess(a, b) ==
    IF b = <<>> THEN FALSE
    ELSE IF a = <<>> THEN TRUE
    ELSE IF Head(a) # Head(b) THEN Head(a) < Head(b)
    ELSE StrLess(Tail(a), Tail(b))

\* x < y for two (key, value) tuples of one dict: the keys differ, so the
\* comparison is decided by the keys and never reaches the values.
ItemLess(x, y) == StrLess(x[1], y[1])

\* x put into an ascending list, after the elements that are not greater.
Insert(sorted, x) ==
    LET n == Cardinality({i \in 1..Len(sorted) : ~ItemLess(x, sorted[i])})
    IN  SubSeq(sorted, 1, n) \o <<x>> \o SubSeq(sorted, n + 1, Len(sorted))

RECURSIVE InsertionSort(_)
InsertionSort(list) ==
    IF list = <<>> THEN <<>>
    ELSE TheOne({Insert(s, list[Len(list)]) :
                    s \in {InsertionSort(SubSeq(list, 1, Len(list) - 1))}})

\* Sorted as it would be if the loop iterated services.items() directly.
Unsorted(list) == list

\* sorted(list): a new list, ascending, stable.
Sorted(list) == InsertionSort(list)

\* Digits as it would be if it put the digits out lowest first.
RECURSIVE DigitsReversed(_)
DigitsReversed(n) ==
    IF n < 10 THEN <<48 + n>> ELSE <<48 + (n % 10)>> \o DigitsReversed(n \div 10)

RECURSIVE Digits(_)
Digits(n) ==
    IF n < 10 THEN <<48 + n>> ELSE Append(Digits(n \div 10), 48 + (n % 10))

\* str(n) for an int.
IntStr(n) == IF n < 0 THEN <<45>> \o Digits(-n) ELSE Digits(n)

\* What an f-string writes for {v}: str(v).
Format(v) ==
    CASE v.t = "str" -> v.v
      [] v.t = "int" -> IntStr(v.v)
      [] v.t = "bool" -> IF v.v THEN <<84, 114, 117, 101>> ELSE <<70, 97, 108, 115, 101>>
      [] v.t = "NoneType" -> <<78, 111, 110, 101>>
      [] v.t = "float" ->
            CASE v.v = "NaN" -> <<110, 97, 110>>                   \* "nan"
              [] v.v = "Infinity" -> <<105, 110, 102>>             \* "inf"
              [] v.v = "-Infinity" -> <<45, 105, 110, 102>>        \* "-inf"

\* ------------------------------------------------- the literals of main()
LitProject == <<80, 114, 111, 106, 101, 99, 116, 58, 32>>          \* "Project: "
LitHash == <<72, 97, 115, 104, 58, 32>>                            \* "Hash: "
LitDomain == <<68, 111, 109, 97, 105, 110, 58, 32>>                \* "Domain: "
LitNoServices ==                                                   \* "No services configured."
    <<78, 111, 32, 115, 101, 114, 118, 105, 99, 101, 115, 32,
      99, 111, 110, 102, 105, 103, 117, 114, 101, 100, 46>>
LitServices == <<83, 101, 114, 118, 105, 99, 101, 115, 58>>        \* "Services:"
LitIndent == <<32, 32>>                                            \* "  "
LitColon == <<58>>                                                 \* ":"
LitDNS == <<32, 32, 32, 32, 68, 78, 83, 58, 32, 32>>               \* "    DNS:  "
LitPort == <<32, 32, 32, 32, 80, 111, 114, 116, 58, 32>>           \* "    Port: "
LitURL == <<32, 32, 32, 32, 85, 82, 76, 58, 32, 32>>               \* "    URL:  "
Blank == <<>>                                                      \* print()

\* ------------------------------------------------------------ the inputs
Names == {<<97>>, <<97, 98>>, <<98>>, <<66>>}                      \* "a", "ab", "b", "B"

HeaderKeys == {"project_name", "hash", "base_domain"}
HeaderPairs ==
    << <<"project_name", JStr(<<97, 99, 109, 101>>)>>,                     \* "acme"
       <<"hash", JStr(<<97, 98, 99, 49, 50, 51>>)>>,                       \* "abc123"
       <<"base_domain", JStr(<<97, 99, 109, 101, 46, 100, 101, 118>>)>> >> \* "acme.dev"

InfoKeys == {"dns_name", "internal_port", "url"}
InfoWeb ==
    << <<"dns_name", JStr(<<119, 101, 98, 46, 115, 118, 99>>)>>,           \* "web.svc"
       <<"internal_port", JInt(8080)>>,
       <<"url", JStr(<<104, 116, 116, 112, 58, 47, 47, 119, 101, 98>>)>> >> \* "http://web"
InfoApi ==
    << <<"dns_name", JStr(<<97, 112, 105, 46, 115, 118, 99>>)>>,           \* "api.svc"
       <<"internal_port", JInt(0)>>,
       <<"url", JStr(<<104, 116, 116, 112, 58, 47, 47, 97, 112, 105>>)>> >> \* "http://api"

Only(pairs, keys) == SelectSeq(pairs, LAMBDA p : p[1] \in keys)

\* The service entries: two complete ones, and one lacking each sub-field.
Entries ==
    {JObject(InfoWeb), JObject(InfoApi)}
        \cup {JObject(Only(InfoWeb, InfoKeys \ {k})) : k \in InfoKeys}

DistinctKeys(pairs) ==
    \A i, j \in 1..Len(pairs) : pairs[i][1] = pairs[j][1] => i = j

\* The `services` objects: up to MaxServices entries in any key order; with
\* two entries, also the objects that write one key twice.
ServicePairs ==
    {s \in UNION {[1..k -> Names \X Entries] : k \in 0..MaxServices} :
        Len(s) = 2 \/ DistinctKeys(s)}

NotMappings ==
    {JNull, JBool(FALSE), JBool(TRUE), JInt(0), JInt(1), JStr(<<>>), JStr(<<115>>),
     JArray(<<>>), JArray(<<JNull>>)}

ServicesTexts == NotMappings \cup {JObject(s) : s \in ServicePairs}

\* `services` is never read once a header field is found missing: the documents
\* with an incomplete header carry the smaller `services` values only.
ShortServicesTexts == NotMappings \cup {JObject(s) : s \in {p \in ServicePairs : Len(p) <= 1}}

WithServices(header, texts) ==
    {JObject(header \o tail) :
        tail \in {<<>>} \cup {<< <<"services", v>> >> : v \in texts}}

TopObjects ==
    WithServices(HeaderPairs, ServicesTexts)
        \cup UNION {WithServices(Only(HeaderPairs, h), ShortServicesTexts) :
                        h \in (SUBSET HeaderKeys) \ {HeaderKeys}}

\* Documents that write a literal json.load reads although it is not JSON.
Consts == {"NaN", "Infinity", "-Infinity"}
WithConst ==
    {JConst(c) : c \in Consts}
        \cup UNION {WithServices(<< <<"project_name", JConst(c)>> >> \o Tail(HeaderPairs),
                                 ShortServicesTexts) : c \in Consts}

\* What can be on stdin: a text json.load rejects, or one it accepts.
Stdins ==
    {[parses |-> FALSE, json |-> JNull]}
        \cup {[parses |-> TRUE, json |-> j] :
                j \in {JNull, JBool(TRUE), JInt(1), JStr(<<115>>), JArray(<<>>)}
                        \cup TopObjects \cup WithConst}

\* --------------------------------------------------------------- main()
Terminal == {"done", "failed"}

Raise(e) == pc' = "failed" /\ exc' = e

Write(line) == out' = Append(out, line)

Init ==
    /\ stdin \in Stdins
    /\ context = Unbound
    /\ services = Unbound
    /\ items = <<>>
    /\ idx = 0
    /\ name = Unbound
    /\ svc = Unbound
    /\ out = <<>>
    /\ pc = "load"
    /\ exc = "none"
    /\ prev = <<>>

\* context = json.load(sys.stdin)
Load ==
    /\ pc = "load"
    /\ IF stdin.parses
       THEN context' = loads(stdin.json) /\ pc' = "project" /\ UNCHANGED exc
       ELSE Raise("JSONDecodeError") /\ UNCHANGED context
    /\ UNCHANGED <<stdin, services, items, idx, name, svc, out, prev>>

\* PrintField as it would be if a KeyError were caught and the line left out.
PrintFieldSkip(lit, obj, key, next) ==
    LET r == Subscript(obj, key)
    IN  IF r.ok
        THEN Write(lit \o Format(r.v)) /\ pc' = next /\ UNCHANGED exc
        ELSE IF r.exc = "KeyError"
             THEN pc' = next /\ UNCHANGED <<out, exc>>
             ELSE Raise(r.exc) /\ UNCHANGED out

\* print(f"<lit>{obj[key]}") and go to `next`, or raise.
PrintField(lit, obj, key, next) ==
    LET r == Subscript(obj, key)
    IN  IF r.ok
        THEN Write(lit \o Format(r.v)) /\ pc' = next /\ UNCHANGED exc
        ELSE Raise(r.exc) /\ UNCHANGED out

PrintProject ==
    /\ pc = "project"
    /\ PrintField(LitProject, context, "project_name", "hash")
    /\ UNCHANGED <<stdin, context, services, items, idx, name, svc, prev>>

PrintHash ==
    /\ pc = "hash"
    /\ PrintField(LitHash, context, "hash", "domain")
    /\ UNCHANGED <<stdin, context, services, items, idx, name, svc, prev>>

PrintDomain ==
    /\ pc = "domain"
    /\ PrintField(LitDomain, context, "base_domain", "blank")
    /\ UNCHANGED <<stdin, context, services, items, idx, name, svc, prev>>

PrintBlank ==
    /\ pc = "blank"
    /\ Write(Blank)
    /\ pc' = "get"
    /\ UNCHANGED <<stdin, context, services, items, idx, name, svc, exc, prev>>

\* services = context.get('services', {})
GetServices ==
    /\ pc = "get"
    /\ services' = DictGet(context, "services", EmptyDict)
    /\ pc' = "test"
    /\ UNCHANGED <<stdin, context, items, idx, name, svc, out, exc, prev>>

\* if not services:
TestServices ==
    /\ pc = "test"
    /\ pc' = IF ~Truthy(services) THEN "none" ELSE "title"
    /\ UNCHANGED <<stdin, context, services, items, idx, name, svc, out, exc, prev>>

\* print("No services configured."); return
PrintNoServices ==
    /\ pc = "none"
    /\ Write(LitNoServices)
    /\ pc' = "done"
    /\ UNCHANGED <<stdin, context, services, items, idx, name, svc, exc, prev>>

\* print("Services:")
PrintServices ==
    /\ pc = "title"
    /\ Write(LitServices)
    /\ pc' = "sort"
    /\ UNCHANGED <<stdin, context, services, items, idx, name, svc, exc, prev>>

\* The iterable of the for statement: sorted(services.items())
SortItems ==
    /\ pc = "sort"
    /\ LET r == DictItems(services)
       IN  IF r.ok
           THEN items' = Sorted(r.v) /\ pc' = "for" /\ UNCHANGED exc
           ELSE Raise(r.exc) /\ UNCHANGED items
    /\ UNCHANGED <<stdin, context, services, idx, name, svc, out, prev>>

\* ForNext as it would be if the loop took the first element again each time.
ForNextAgain ==
    /\ pc = "for"
    /\ IF 0 < Len(items)
       THEN /\ idx' = 1
            /\ name' = PyStr(items[1][1])
            /\ svc' = items[1][2]
            /\ pc' = "name"
       ELSE /\ pc' = "done"
            /\ UNCHANGED <<idx, name, svc>>
    /\ UNCHANGED <<stdin, context, services, items, out, exc, prev>>

\* for name, svc in ...: bind the next element, or leave the loop and return
ForNext ==
    /\ pc = "for"
    /\ IF idx < Len(items)
       THEN /\ idx' = idx + 1
            /\ name' = PyStr(items[idx + 1][1])
            /\ svc' = items[idx + 1][2]
            /\ pc' = "name"
       ELSE /\ pc' = "done"
            /\ UNCHANGED <<idx, name, svc>>
    /\ UNCHANGED <<stdin, context, services, items, out, exc, prev>>

\* print(f"  {name}:")
PrintName ==
    /\ pc = "name"
    /\ Write(LitIndent \o Format(name) \o LitColon)
    /\ pc' = "dns"
    /\ UNCHANGED <<stdin, context, services, items, idx, name, svc, exc, prev>>

PrintDNS ==
    /\ pc = "dns"
    /\ PrintField(LitDNS, svc, "dns_name", "port")
    /\ UNCHANGED <<stdin, context, services, items, idx, name, svc, prev>>

PrintPort ==
    /\ pc = "port"
    /\ PrintField(LitPort, svc, "internal_port", "url")
    /\ UNCHANGED <<stdin, context, services, items, idx, name, svc, prev>>

PrintURL ==
    /\ pc = "url"
    /\ PrintField(LitURL, svc, "url", "endblock")
    /\ UNCHANGED <<stdin, context, services, items, idx, name, svc, prev>>

\* PrintBlockEnd as it would be without its print().
PrintBlockEndNoBlank ==
    /\ pc = "endblock"
    /\ pc' = "for"
    /\ UNCHANGED <<stdin, context, services, items, idx, name, svc, out, exc, prev>>

\* the print() that ends a block
PrintBlockEnd ==
    /\ pc = "endblock"
    /\ Write(Blank)
    /\ pc' = "for"
    /\ UNCHANGED <<stdin, context, services, items, idx, name, svc, exc, prev>>

Main ==
    \/ Load
    \/ PrintProject
    \/ PrintHash
    \/ PrintDomain
    \/ PrintBlank
    \/ GetServices
    \/ TestServices
    \/ PrintNoServices
    \/ PrintServices
    \/ SortItems
    \/ ForNext
    \/ PrintName
    \/ PrintDNS
    \/ PrintPort
    \/ PrintURL
    \/ PrintBlockEnd

\* The script is invoked a second time (if __name__ == "__main__": main()), in
\* a fresh process, on the same document written with the keys of `services`
\* in another order; on the same document when there is no other order.
SameMapping(j1, j2) ==
    LET d1 == loads(j1)
        d2 == loads(j2)
    IN  d1.v.val = d2.v.val

Reordered(s) ==
    IF /\ s.parses
       /\ s.json.t = "object"
       /\ Len(s.json.v) > 0
       /\ s.json.v[Len(s.json.v)][1] = "services"
       /\ s.json.v[Len(s.json.v)][2].t = "object"
    THEN LET n == Len(s.json.v)
             head == SubSeq(s.json.v, 1, n - 1)
             pairs == s.json.v[n][2].v
             orders == {[i \in 1..Len(pairs) |-> pairs[p[i]]] :
                           p \in Permutations(1..Len(pairs))}
             others == {o \in orders :
                           o # pairs /\ SameMapping(JObject(o), JObject(pairs))}
         IN  IF others = {} THEN {s}
             ELSE {[parses |-> TRUE,
                    json |-> JObject(Append(head, <<"services", JObject(q)>>))] :
                      q \in others}
    ELSE {s}

Rerun ==
    /\ pc \in Terminal
    /\ prev = <<>>
    /\ stdin' \in Reordered(stdin)
    /\ prev' = <<[out |-> out, pc |-> pc, exc |-> exc]>>
    /\ context' = Unbound
    /\ services' = Unbound
    /\ items' = <<>>
    /\ idx' = 0
    /\ name' = Unbound
    /\ svc' = Unbound
    /\ out' = <<>>
    /\ pc' = "load"
    /\ exc' = "none"

Next == Main

Spec == Init /\ [][Next]_vars

\* The interpreter executes main() statement by statement until it returns or
\* raises.
FairSpec == Spec /\ WF_vars(Main)

NextRerun == Main \/ Rerun

RerunSpec == Init /\ [][NextRerun]_vars

\* ------------------------------------------------ reading the input text
\* The definitions below describe the document on stdin and the text on
\* stdout directly; they do not go through main()'s own operators.

\* The text is JSON: none of the literals json.load reads beyond JSON.
RECURSIVE Standard(_)
Standard(j) ==
    CASE j.t = "const" -> FALSE
      [] j.t = "array" -> \A i \in 1..Len(j.v) : Standard(j.v[i])
      [] j.t = "object" -> \A i \in 1..Len(j.v) : Standard(j.v[i][2])
      [] OTHER -> TRUE

\* The input is valid JSON.
ValidJSON == stdin.parses /\ Standard(stdin.json)

\* The input is a JSON object.
IsObject == ValidJSON /\ stdin.json.t = "object"

KeysOf(pairs) == {pairs[i][1] : i \in 1..Len(pairs)}

HeaderComplete == IsObject /\ HeaderKeys \subseteq KeysOf(stdin.json.v)

HasServices == IsObject /\ "services" \in KeysOf(stdin.json.v)

ServicesText == LastValue(stdin.json.v, "services")

\* `services` is written as an object with at least one entry.
HasEntries == HasServices /\ ServicesText.t = "object" /\ Len(ServicesText.v) > 0

\* The entry a service name stands for.
EntryOf(k) == LastValue(ServicesText.v, k)

Complete(entry) == entry.t = "object" /\ InfoKeys \subseteq KeysOf(entry.v)

\* The service names in ascending lexicographic order.
Ascending(S) ==
    [i \in 1..Cardinality(S) |->
        CHOOSE k \in S : Cardinality({m \in S : StrLess(m, k)}) = i - 1]

ServiceNames == Ascending(KeysOf(ServicesText.v))

HeaderOrder == <<"project_name", "hash", "base_domain">>
HeaderLits == <<LitProject, LitHash, LitDomain>>
InfoOrder == <<"dns_name", "internal_port", "url">>
InfoLits == <<LitDNS, LitPort, LitURL>>

\* The header line of the i-th header field, from the input text.
HeaderLine(i) == HeaderLits[i] \o LastValue(stdin.json.v, HeaderOrder[i]).v

HasPrefix(line, lit) == Len(line) >= Len(lit) /\ SubSeq(line, 1, Len(lit)) = lit

Rest(line, lit) == SubSeq(line, Len(lit) + 1, Len(line))

IsPrefixOf(s, t) == Len(s) <= Len(t) /\ s = SubSeq(t, 1, Len(s))

\* Line p of a report with services: 1..3 header, 4 blank, 5 "Services:", then
\* blocks of five lines, block k starting at line BlockStart(k).
BlockStart(k) == 6 + 5 * (k - 1)
BlockOf(p) == ((p - 6) \div 5) + 1
PlaceOf(p) == (p - 6) % 5

NameLine(k) == LitIndent \o k \o LitColon

\* Line p of the output has the form the report gives to line p, for the
\* service names `names` in the order of their blocks.
LineOK(p, names) ==
    IF p <= 3 THEN out[p] = HeaderLine(p)
    ELSE IF p = 4 THEN out[p] = Blank
    ELSE IF p = 5 THEN out[p] = LitServices
    ELSE /\ BlockOf(p) <= Len(names)
         /\ IF PlaceOf(p) = 0 THEN out[p] = NameLine(names[BlockOf(p)])
            ELSE IF PlaceOf(p) = 4 THEN out[p] = Blank
            ELSE HasPrefix(out[p], InfoLits[PlaceOf(p)])

\* Every entry of a non-empty `services` object is complete.
AllComplete == HasEntries /\ \A k \in KeysOf(ServicesText.v) : Complete(EntryOf(k))

ValidWithServices == HeaderComplete /\ AllComplete

\* The names on the name lines written so far, in the order written.
NamesWritten ==
    [k \in 1..(IF Len(out) < 6 THEN 0 ELSE BlockOf(Len(out))) |->
        SubSeq(out[BlockStart(k)], Len(LitIndent) + 1,
               Len(out[BlockStart(k)]) - Len(LitColon))]

\* The report of a document without services.
NoServicesReport ==
    <<HeaderLine(1), HeaderLine(2), HeaderLine(3), Blank, LitNoServices>>

\* The first header field the document lacks.
MissingAt ==
    CHOOSE i \in 1..3 :
        /\ HeaderOrder[i] \notin KeysOf(stdin.json.v)
        /\ \A j \in 1..(i - 1) : HeaderOrder[j] \in KeysOf(stdin.json.v)

\* The first incomplete entry, in ascending order of the names.
FirstBad ==
    LET names == ServiceNames
    IN  CHOOSE b \in 1..Len(names) :
            /\ ~Complete(EntryOf(names[b]))
            /\ \A c \in 1..(b - 1) : Complete(EntryOf(names[c]))

\* How many sub-fields of an entry precede its first missing one.
FieldsBefore(entry) ==
    CHOOSE m \in 0..2 :
        /\ InfoOrder[m + 1] \notin KeysOf(entry.v)
        /\ \A q \in 1..m : InfoOrder[q] \in KeysOf(entry.v)

\* Where the report stops when the first incomplete entry is reached.
TruncatedLen ==
    LET b == FirstBad
    IN  BlockStart(b) + FieldsBefore(EntryOf(ServiceNames[b]))

\* The value of a sub-field as the input writes it.
Field(entry, key) == LastValue(entry.v, key).v

RECURSIVE DecimalValue(_)
DecimalValue(ds) ==
    IF ds = <<>> THEN 0
    ELSE 10 * DecimalValue(SubSeq(ds, 1, Len(ds) - 1)) + (ds[Len(ds)] - 48)

IsDigits(ds) ==
    /\ Len(ds) > 0
    /\ \A i \in 1..Len(ds) : ds[i] \in 48..57
    /\ Len(ds) > 1 => ds[1] # 48

\* s is the plain decimal representation of the integer n.
IsDecimalOf(s, n) ==
    IF n < 0
    THEN Len(s) > 1 /\ s[1] = 45 /\ IsDigits(Tail(s)) /\ DecimalValue(Tail(s)) = -n
    ELSE IsDigits(s) /\ DecimalValue(s) = n

\* The JSON values Python counts as false.
FalsyTexts == {JNull, JBool(FALSE), JInt(0), JStr(<<>>), JArray(<<>>), JObject(<<>>)}

\* The number of keys of `services`, 0 when there is no such object.
EntryCount ==
    IF /\ stdin.parses
       /\ stdin.json.t = "object"
       /\ "services" \in KeysOf(stdin.json.v)
       /\ ServicesText.t = "object"
    THEN Cardinality(KeysOf(ServicesText.v)) ELSE 0

\* How far main() has got: every statement it executes raises it.
Rank ==
    CASE pc = "load" -> 0
      [] pc = "project" -> 1
      [] pc = "hash" -> 2
      [] pc = "domain" -> 3
      [] pc = "blank" -> 4
      [] pc = "get" -> 5
      [] pc = "test" -> 6
      [] pc \in {"none", "title"} -> 7
      [] pc = "sort" -> 8
      [] pc = "for" -> 9 + 6 * idx
      [] pc = "name" -> 4 + 6 * idx
      [] pc = "dns" -> 5 + 6 * idx
      [] pc = "port" -> 6 + 6 * idx
      [] pc = "url" -> 7 + 6 * idx
      [] pc = "endblock" -> 8 + 6 * idx
      [] pc \in Terminal -> 16 + 6 * Len(items)

\* -------------------------------------------------------------- C1
\* C1: for a document with a complete header and a non-empty `services` whose
\* entries are all complete, at every point of the run the service names
\* already written are service names of the input, are strictly increasing in
\* lexicographic order, and each is smaller than every name not yet written.
C1_AscendingOrder ==
    ValidWithServices =>
        LET w == NamesWritten
            unwritten == KeysOf(ServicesText.v) \ {w[i] : i \in DOMAIN w}
        IN  /\ \A i \in DOMAIN w : w[i] \in KeysOf(ServicesText.v)
            /\ \A i, j \in DOMAIN w : i < j => StrLess(w[i], w[j])
            /\ \A i \in DOMAIN w : \A u \in unwritten : StrLess(w[i], u)

\* A finished report of three services whose keys were written in descending order.
C1_Witness ==
    /\ ValidWithServices
    /\ pc = "done"
    /\ Len(ServicesText.v) = 3
    /\ StrLess(ServicesText.v[3][1], ServicesText.v[2][1])
    /\ StrLess(ServicesText.v[2][1], ServicesText.v[1][1])
    /\ Len(NamesWritten) = 3

\* -------------------------------------------------------------- C2
\* C2: with a complete header and `services` absent or {}, the run never fails,
\* never writes "Services:", writes only the five lines Project, Hash, Domain,
\* blank, "No services configured." in that order, and has written exactly
\* those five when it ends.
C2_NoServices ==
    (HeaderComplete /\ (~HasServices \/ ServicesText = JObject(<<>>))) =>
        /\ pc # "failed"
        /\ IsPrefixOf(out, NoServicesReport)
        /\ \A i \in 1..Len(out) : out[i] # LitServices
        /\ pc = "done" => out = NoServicesReport

\* A finished run on a document whose `services` is {}.
C2_Witness ==
    /\ HeaderComplete
    /\ HasServices
    /\ ServicesText = JObject(<<>>)
    /\ pc = "done"
    /\ Len(out) = 5

\* -------------------------------------------------------------- C3
\* C3 as stated: when the input is not valid JSON, or is valid JSON that is not
\* an object at the top level, the output stays empty and the run never ends
\* successfully.
C3_AsStated ==
    ~IsObject => (out = <<>> /\ pc # "done")

\* C3, for the inputs json.load turns away: a line is written only after json.load has read the whole input
\* and returned a dict; when json.load rejects the input, or returns a value
\* that is not a dict, the output stays empty, the run never ends successfully,
\* it keeps going until it has failed, and it fails in json.load or in the
\* first subscript.
C3_RejectedNoOutput ==
    /\ out # <<>> => (context.t = "dict" /\ stdin.parses /\ stdin.json.t = "object")
    /\ (~stdin.parses \/ stdin.json.t # "object") =>
        /\ out = <<>>
        /\ pc \in {"load", "project", "failed"}
        /\ pc # "failed" => ENABLED Main
        /\ pc = "failed" =>
              exc = (IF stdin.parses THEN "TypeError" ELSE "JSONDecodeError")

\* A run on a top-level array that has failed.
C3_Witness ==
    /\ stdin.parses
    /\ stdin.json.t = "array"
    /\ pc = "failed"
    /\ exc = "TypeError"
    /\ out = <<>>

\* A run on a text json.load rejects that has failed.
C3_WitnessRejected ==
    /\ ~stdin.parses
    /\ pc = "failed"
    /\ exc = "JSONDecodeError"
    /\ out = <<>>

\* -------------------------------------------------------------- C4
\* C4: when a top-level object lacks a header field, the run never ends
\* successfully, the output is at every point a prefix of the header lines of
\* the fields that precede the first absent one, and the run fails with a
\* KeyError with exactly those lines written.
C4_MissingHeaderField ==
    (IsObject /\ ~HeaderComplete) =>
        LET before == [i \in 1..(MissingAt - 1) |-> HeaderLine(i)]
        IN  /\ pc # "done"
            /\ IsPrefixOf(out, before)
            /\ pc = "failed" => (exc = "KeyError" /\ out = before)

\* A run that failed on a document lacking only base_domain.
C4_Witness ==
    /\ IsObject
    /\ ~HeaderComplete
    /\ MissingAt = 3
    /\ pc = "failed"
    /\ Len(out) = 2

\* -------------------------------------------------------------- C5
\* C5: with a complete header and a non-empty `services` in which some entry
\* lacks a sub-field, the run never ends successfully; every line written has
\* the form of the report; nothing is written beyond the name line of the first
\* incomplete entry (in ascending order of the names) and the sub-fields that
\* precede its first missing one; and the run fails with a KeyError exactly there.
C5_AbortAtFirstIncomplete ==
    (HeaderComplete /\ HasEntries /\ ~AllComplete) =>
        LET names == ServiceNames
            stop == TruncatedLen
        IN  /\ pc # "done"
            /\ Len(out) <= stop
            /\ \A p \in 1..Len(out) : LineOK(p, names)
            /\ pc = "failed" => (exc = "KeyError" /\ Len(out) = stop)

\* Three services of which the second in ascending order is the first incomplete.
C5_Witness ==
    /\ HeaderComplete
    /\ HasEntries
    /\ ~AllComplete
    /\ Len(ServiceNames) = 3
    /\ FirstBad = 2
    /\ pc = "failed"

\* -------------------------------------------------------------- C6
\* C6: for a document with a complete header and a non-empty `services` whose
\* entries are all complete, the run never fails; line p of the output is at
\* every point what the report has at line p (three header lines, a blank line,
\* "Services:", then per service name in ascending order its name line, DNS,
\* Port and URL lines and a blank line); "Services:" is no other line; and when
\* the run ends there are exactly 5 + 5n lines for the n keys of `services`.
C6_ReportStructure ==
    ValidWithServices =>
        LET names == ServiceNames
        IN  /\ pc # "failed"
            /\ Len(out) <= 5 + 5 * Len(names)
            /\ \A p \in 1..Len(out) : LineOK(p, names)
            /\ \A p \in 1..Len(out) : p # 5 => out[p] # LitServices
            /\ pc = "done" => Len(out) = 5 + 5 * Len(names)

\* A finished report of three services.
C6_Witness ==
    /\ ValidWithServices
    /\ Len(ServiceNames) = 3
    /\ pc = "done"
    /\ Len(out) = 20

\* -------------------------------------------------------------- C7
\* C7: each line of a service block carries the value of its own entry as the
\* input writes it: the name line the entry's key, the DNS and URL lines the
\* strings dns_name and url unchanged, the Port line the plain decimal
\* representation of internal_port.
C7_ValuesUntransformed ==
    (HeaderComplete /\ HasEntries) =>
        LET names == ServiceNames
        IN  \A p \in 6..Len(out) :
                /\ BlockOf(p) <= Len(names)
                /\ LET k == names[BlockOf(p)]
                       e == EntryOf(k)
                       q == PlaceOf(p)
                   IN  /\ q = 0 => out[p] = NameLine(k)
                       /\ q \in 1..3 => InfoOrder[q] \in KeysOf(e.v)
                       /\ q = 1 => out[p] = LitDNS \o Field(e, "dns_name")
                       /\ q = 2 => /\ HasPrefix(out[p], LitPort)
                                   /\ IsDecimalOf(Rest(out[p], LitPort),
                                                  Field(e, "internal_port"))
                       /\ q = 3 => out[p] = LitURL \o Field(e, "url")

\* A finished report whose first two blocks are of entries with different values.
C7_Witness ==
    /\ HeaderComplete
    /\ HasEntries
    /\ pc = "done"
    /\ Len(out) >= 15
    /\ EntryOf(ServiceNames[1]) = JObject(InfoApi)
    /\ EntryOf(ServiceNames[2]) = JObject(InfoWeb)

\* -------------------------------------------------------------- C8
\* C8: a second invocation, on the same document or on one that differs from it
\* only in the order of the keys of `services`, ends with the same output and
\* the same outcome (success, or the same exception) as the first.
C8_Deterministic ==
    (prev # <<>> /\ pc \in Terminal) =>
        /\ out = prev[1].out
        /\ pc = prev[1].pc
        /\ exc = prev[1].exc

\* A second invocation that finished a report of three services: its document
\* has three keys, so the first invocation read them in another order.
C8_Witness ==
    /\ prev # <<>>
    /\ pc = "done"
    /\ HasEntries
    /\ Len(ServicesText.v) = 3
    /\ Len(out) = 20
    /\ prev[1].out = out

\* -------------------------------------------------------------- C9
\* C9: every step of a run moves main() strictly forward and none is taken
\* after the run has ended (so nothing is retried and a failure is final), the
\* loop takes at most one element per key of `services`, and every run ends.
C9_SinglePass ==
    /\ [][pc \notin Terminal /\ Rank' > Rank]_vars
    /\ [](idx <= EntryCount)
    /\ <>(pc \in Terminal)

\* A run that ended successfully after three iterations of the loop.
C9_Witness ==
    /\ pc = "done"
    /\ idx = 3
    /\ EntryCount = 3

\* -------------------------------------------------------------- C10
\* C10: with a complete header, a `services` that is present with a value
\* Python counts as false (null, false, 0, "", [], {}) gives the report of a
\* document without services and never a failure; a `services` that is not an
\* object and counts as true gives the header, the blank line and "Services:"
\* and then a failure with an AttributeError, never a success.
C10_FallbackOnFalsiness ==
    (HeaderComplete /\ HasServices) =>
        /\ ServicesText \in FalsyTexts =>
              /\ pc # "failed"
              /\ IsPrefixOf(out, NoServicesReport)
              /\ pc = "done" => out = NoServicesReport
        /\ (ServicesText.t # "object" /\ ServicesText \notin FalsyTexts) =>
              LET cut == <<HeaderLine(1), HeaderLine(2), HeaderLine(3), Blank, LitServices>>
              IN  /\ pc # "done"
                  /\ IsPrefixOf(out, cut)
                  /\ pc = "failed" => (exc = "AttributeError" /\ out = cut)

\* A run on `services` = [null] that failed after writing "Services:".
C10_Witness ==
    /\ HeaderComplete
    /\ HasServices
    /\ ServicesText = JArray(<<JNull>>)
    /\ pc = "failed"
    /\ out[Len(out)] = LitServices

\* A run on `services` = null that ended successfully.
C10_WitnessFalsy ==
    /\ HeaderComplete
    /\ HasServices
    /\ ServicesText = JNull
    /\ pc = "done"
    /\ out = NoServicesReport
====
